---- MODULE Spec2Model ----
(***************************************************************************)
(* Model of the buoy-camera gallery builder (gallery_v4.py): the           *)
(* per-source fetch / validate / split / align loop of create_gallery,     *)
(* the gallery composition, and the pure image functions is_blank_image,   *)
(* align_horizon and process_and_split_image.                              *)
(*                                                                         *)
(* An image is a record [w, h, ref, hist, lines]:                          *)
(*   w, h   its size in pixels;                                            *)
(*   ref    which object it is ("file" for Image.open, "copy",             *)
(*          "transpose", "rotated", "crop", "canvas");                     *)
(*   hist   its luminance histogram, bucket 0 first and the pure-white     *)
(*          bucket last (<<>> where the luminance is not modelled);        *)
(*   lines  the polar angles, in whole degrees, of the straight edges in   *)
(*          its pixel content.                                             *)
(***************************************************************************)
EXTENDS Integers, Sequences, FiniteSets, TLC

VARIABLES pc, cycle, idx, image_path, img, images, gallery, y_offset,
          saved, log, proc, blank, rotEnv, aligned, realigned, angle

vars == <<pc, cycle, idx, image_path, img, images, gallery, y_offset,
          saved, log, proc, blank, rotEnv, aligned, realigned, angle>>

------------------------------------------------------------------------------
(* Bounds of the model *)

NumBuoys == 3
MaxCycles == 2
NumBuckets == 3
MaxPixels == 20
MaxGrow == 1
MaxLines == 2

(* Program constants *)

PanelCount == 6
HoughThreshold == 150
BlankPercent == 95

AllBuoyIds ==
  <<45007, 45012, 46002, 46011, 46012, 46015, 46025, 46026, 46027, 46028,
    46042, 46047, 46053, 46054, 46059, 46066, 46069, 46071, 46072, 46078,
    46085, 46086, 46087, 46088, 46089, 51000, 51001, 51002, 51003, 51004,
    51101, 46084>>

buoy_ids == SubSeq(AllBuoyIds, 1, NumBuoys)

------------------------------------------------------------------------------
(* Arithmetic helpers (Python's max and sum) *)

Max(a, b) == IF a >= b THEN a ELSE b

RECURSIVE SumSeq(_)
SumSeq(s) == IF s = <<>> THEN 0 ELSE s[1] + SumSeq(Tail(s))

RECURSIVE MaxSeq(_)
MaxSeq(s) == IF Len(s) = 1 THEN s[1] ELSE Max(s[1], MaxSeq(Tail(s)))

Widths(ims) == [i \in 1..Len(ims) |-> ims[i].w]

Heights(ims) == [i \in 1..Len(ims) |-> ims[i].h]

NoImage == [w |-> 0, h |-> 0, ref |-> "none", hist |-> <<>>, lines |-> <<>>]

------------------------------------------------------------------------------
(* is_blank_image *)

(* Variant: the comparison made non-strict. *)
Mostly_mut(count, total_pixels) == 100 * count >= BlankPercent * total_pixels

(* count > 0.95 * total_pixels.  0.95 * N in double arithmetic is the      *)
(* integer 19N/20 whenever that is an integer and is otherwise at least    *)
(* 0.05 away from every integer, so the comparison is the exact one.       *)
Mostly(count, total_pixels) == 100 * count > BlankPercent * total_pixels

histogram(image) == image.hist

is_blank_image(image) ==
  LET hist == histogram(image)
      total_pixels == SumSeq(hist)
  IN  IF Mostly(hist[Len(hist)], total_pixels) \/ Mostly(hist[1], total_pixels)
        THEN TRUE
        ELSE IF Mostly(MaxSeq(hist), total_pixels) THEN TRUE ELSE FALSE

------------------------------------------------------------------------------
(* align_horizon *)

(* cv2.HoughLines(edges, 1, pi/180, 150): None (<<>>) unless some line     *)
(* collects more than 150 votes, which needs a panel with more than 150    *)
(* pixels along one side; the angles come in steps of one degree.          *)
HoughLines(image) ==
  IF Max(image.w, image.h) > HoughThreshold THEN image.lines ELSE <<>>

(* Variant: the 90 degree offset left out. *)
mean_angle_mut(lines) ==
  IF lines # <<>>
    THEN [num |-> SumSeq(lines), den |-> Len(lines)]
    ELSE [num |-> 0, den |-> 1]

(* The mean of (theta - 90) as the fraction num/den; 0 when lines is None. *)
mean_angle(lines) ==
  IF lines # <<>>
    THEN [num |-> SumSeq(lines) - 90 * Len(lines), den |-> Len(lines)]
    ELSE [num |-> 0, den |-> 1]

Neg(a) == [num |-> 0 - a.num, den |-> a.den]

(* PIL Image.rotate(degrees, resample=BICUBIC, expand=True).  0 degrees    *)
(* returns self.copy(); 90 degrees is a transpose; any other angle         *)
(* resamples into the bounding box of the rotated panel, whose growth and  *)
(* new content env supplies.                                               *)
rotate(image, degrees, env) ==
  IF degrees.num = 0
    THEN [image EXCEPT !.ref = "copy"]
    ELSE IF degrees.num = 90 * degrees.den
      THEN [w |-> image.h, h |-> image.w, ref |-> "transpose",
            hist |-> <<>>, lines |-> env.after]
      ELSE [w |-> image.w + env.grow, h |-> image.h + env.grow,
            ref |-> "rotated", hist |-> <<>>, lines |-> env.after]

(* The angle handed to image.rotate: -mean_angle. *)
rotation_angle(image) == Neg(mean_angle(HoughLines(image)))

align_horizon(image, env) == rotate(image, rotation_angle(image), env)

------------------------------------------------------------------------------
(* process_and_split_image *)

(* PIL Image.crop((left, upper, right, lower)); content is what the        *)
(* cropped region shows.                                                   *)
crop(image, left, upper, right, lower, content) ==
  [w |-> right - left, h |-> lower - upper, ref |-> "crop",
   hist |-> <<>>, lines |-> content]

(* Variant: the lower bound taken as inclusive. *)
panel_box_mut(i, width, panel_height) ==
  [left |-> 0, upper |-> i * panel_height,
   right |-> width, lower |-> (i + 1) * panel_height - 1]

(* The crop box of panel i (i = 0 .. 5). *)
panel_box(i, width, panel_height) ==
  [left |-> 0, upper |-> i * panel_height,
   right |-> width, lower |-> (i + 1) * panel_height]

(* The y_offset at which each image of ims is pasted, starting at y. *)
RECURSIVE paste_offsets(_, _)
paste_offsets(ims, y) ==
  IF ims = <<>> THEN <<>>
  ELSE <<y>> \o paste_offsets(Tail(ims), y + ims[1].h)

(* Variant: no guard, as in gallery_v2.py. *)
too_small_mut(height) == FALSE

(* if height < 6: return image *)
too_small(height) == height < PanelCount

(* Variant: the operands of the difference swapped. *)
trim_mut(panel, panel_height) == Max(0, panel_height - panel.h)

trim(panel, panel_height) == Max(0, panel.h - panel_height)

NoProc ==
  [inp |-> NoImage, out |-> NoImage, panel_height |-> 0, boxes |-> <<>>,
   aligned_panels |-> <<>>, combined |-> NoImage, offsets |-> <<>>,
   trim_top |-> 0, trim_bottom |-> 0]

(* views[i + 1] is what panel i shows (lines) and what rotating it         *)
(* produces (grow, after).  The result records the returned image (out)    *)
(* and the intermediate values of the call.                                *)
process_and_split_image(image, views) ==
  LET width == image.w
      height == image.h
  IN  IF too_small(height)
        THEN [NoProc EXCEPT !.inp = image, !.out = image]
        ELSE
          LET panel_height == height \div PanelCount
              boxes == [k \in 1..PanelCount |->
                          panel_box(k - 1, width, panel_height)]
              panels == [k \in 1..PanelCount |->
                           crop(image, boxes[k].left, boxes[k].upper,
                                boxes[k].right, boxes[k].lower,
                                views[k].lines)]
              aligned_panels == [k \in 1..PanelCount |->
                                   align_horizon(panels[k], views[k])]
              combined_height == SumSeq(Heights(aligned_panels))
              combined_image == [w |-> width, h |-> combined_height,
                                 ref |-> "canvas", hist |-> <<>>,
                                 lines |-> <<>>]
              trim_top == trim(aligned_panels[1], panel_height)
              trim_bottom == trim(aligned_panels[PanelCount], panel_height)
              trimmed_image == crop(combined_image, 0, trim_top, width,
                                    combined_height - trim_bottom, <<>>)
          IN  [inp |-> image, out |-> trimmed_image,
               panel_height |-> panel_height, boxes |-> boxes,
               aligned_panels |-> aligned_panels,
               combined |-> combined_image,
               offsets |-> paste_offsets(aligned_panels, 0),
               trim_top |-> trim_top, trim_bottom |-> trim_bottom]

------------------------------------------------------------------------------
(* Inputs *)

(* A histogram of the given kind over total pixels: all white, exactly     *)
(* 95% white with the rest black, or half black and half white.            *)
HistOf(kind, total) ==
  [b \in 1..NumBuckets |->
     CASE kind = "white" -> IF b = NumBuckets THEN total ELSE 0
       [] kind = "near"  -> IF b = NumBuckets THEN (95 * total) \div 100
                            ELSE IF b = 1 THEN total - (95 * total) \div 100
                            ELSE 0
       [] OTHER          -> IF b = 1 THEN total \div 2
                            ELSE IF b = NumBuckets THEN total - total \div 2
                            ELSE 0]

FileImage(w, h, kind) ==
  [w |-> w, h |-> h, ref |-> "file", hist |-> HistOf(kind, w * h),
   lines |-> <<>>]

(* The frames a station can return. *)
Frames ==
  {FileImage(4, 5, "white"), FileImage(4, 5, "near"),
   FileImage(200, 600, "half")}

Level == [lines |-> <<>>, grow |-> 0, after |-> <<>>]

(* What one panel can show and what rotating it gives: no line, a line     *)
(* tilted by 2 degrees, or a vertical line.                                *)
PanelViews ==
  {Level, [lines |-> <<0>>, grow |-> 0, after |-> <<>>]}
    \cup {[lines |-> <<92>>, grow |-> g, after |-> <<>>] : g \in 1..MaxGrow}

Profiles == [1..PanelCount -> PanelViews]

(* The profiles of a frame whose six panels all show the same: level, or  *)
(* tilted by 2 degrees and grown by one row.                               *)
UniformProfiles ==
  {[k \in 1..PanelCount |-> v] :
     v \in {Level, [lines |-> <<92>>, grow |-> 1, after |-> <<>>]}}

NoGallery == [w |-> 0, h |-> 0, allocated |-> FALSE, pastes |-> <<>>]

NoAngle == [num |-> 0, den |-> 1]

------------------------------------------------------------------------------
(* fetch_buoy_image: net is what the request and the file write do.        *)
(* value is the returned image_path (the buoy id stands for its path, 0    *)
(* for None); raised tells that an exception left the function.            *)
fetch_buoy_image(buoy_id, net) ==
  CASE net = "request_error" -> [value |-> 0, raised |-> FALSE]
    [] net = "not_image"     -> [value |-> 0, raised |-> FALSE]
    [] net = "write_error"   -> [value |-> 0, raised |-> TRUE]
    [] OTHER                 -> [value |-> buoy_id, raised |-> FALSE]

NetOutcomes == {"request_error", "not_image", "write_error", "ok"}

(* Variant: every other source skipped. *)
next_index_mut(i) == i + 2

(* for buoy_id in buoy_ids: the position of the next iteration. *)
next_index(i) == i + 1

Event(buoy_id, ev, frame) == [buoy |-> buoy_id, ev |-> ev, frame |-> frame]

------------------------------------------------------------------------------
(* The polling loop and create_gallery *)

Init ==
  /\ pc = "main"
  /\ cycle = 0
  /\ idx = 1
  /\ image_path = 0
  /\ img = NoImage
  /\ images = <<>>
  /\ gallery = NoGallery
  /\ y_offset = 0
  /\ saved = 0
  /\ log = <<>>
  /\ proc = NoProc
  /\ blank = FALSE
  /\ rotEnv = <<>>
  /\ aligned = NoImage
  /\ realigned = NoImage
  /\ angle = NoAngle

(* while True: create_gallery() is entered with images = []. *)
StartCycle ==
  /\ pc = "main"
  /\ cycle < MaxCycles
  /\ cycle' = cycle + 1
  /\ images' = <<>>
  /\ idx' = 1
  /\ pc' = "fetch"
  /\ UNCHANGED <<image_path, img, gallery, y_offset, saved, log, proc,
                 blank, rotEnv, aligned, realigned, angle>>

(* image_path = fetch_buoy_image(buoy_id); if image_path: ... *)
Fetch ==
  /\ pc = "fetch"
  /\ idx <= Len(buoy_ids)
  /\ \E net \in NetOutcomes :
       LET r == fetch_buoy_image(buoy_ids[idx], net)
       IN  /\ log' = Append(log, Event(buoy_ids[idx], net, NoImage))
           /\ image_path' = r.value
           /\ IF r.raised
                THEN /\ pc' = "crashed"
                     /\ idx' = idx
                ELSE IF r.value # 0
                  THEN /\ pc' = "open"
                       /\ idx' = idx
                  ELSE /\ pc' = "fetch"
                       /\ idx' = next_index(idx)
  /\ UNCHANGED <<cycle, img, images, gallery, y_offset, saved, proc, blank,
                 rotEnv, aligned, realigned, angle>>

(* with Image.open(image_path) as img: a file that does not decode raises, *)
(* which the except clause of the iteration catches.                       *)
Open ==
  /\ pc = "open"
  /\ \/ /\ log' = Append(log, Event(buoy_ids[idx], "decode_error", NoImage))
        /\ pc' = "fetch"
        /\ idx' = next_index(idx)
        /\ img' = NoImage
     \/ \E f \in Frames :
          /\ img' = f
          /\ log' = Append(log, Event(buoy_ids[idx], "opened", f))
          /\ pc' = "validate"
          /\ idx' = idx
  /\ UNCHANGED <<cycle, image_path, images, gallery, y_offset, saved, proc,
                 blank, rotEnv, aligned, realigned, angle>>

(* Variant: the blank check left out, as in gallery.py. *)
rejects_mut(image) == FALSE

(* if is_blank_image(img): ... continue *)
rejects(image) == is_blank_image(image)

Validate ==
  /\ pc = "validate"
  /\ blank' = is_blank_image(img)
  /\ IF rejects(img)
       THEN /\ log' = Append(log, Event(buoy_ids[idx], "blank", img))
            /\ pc' = "fetch"
            /\ idx' = next_index(idx)
       ELSE /\ log' = Append(log, Event(buoy_ids[idx], "accepted", img))
            /\ pc' = "process"
            /\ idx' = idx
  /\ UNCHANGED <<cycle, image_path, img, images, gallery, y_offset, saved,
                 proc, rotEnv, aligned, realigned, angle>>

(* processed_img = process_and_split_image(img); images.append(...).  An   *)
(* exception raised while cropping or aligning is caught by the except     *)
(* clause of the iteration.                                                *)
Process ==
  /\ pc = "process"
  /\ \/ /\ ~too_small(img.h)
        /\ log' = Append(log, Event(buoy_ids[idx], "process_error", img))
        /\ UNCHANGED <<images, proc, rotEnv>>
     \/ \E views \in UniformProfiles :
          /\ proc' = process_and_split_image(img, views)
          /\ images' = Append(images, proc'.out)
          /\ log' = Append(log, Event(buoy_ids[idx], "appended", img))
          /\ UNCHANGED rotEnv
  /\ pc' = "fetch"
  /\ idx' = next_index(idx)
  /\ UNCHANGED <<cycle, image_path, img, gallery, y_offset, saved, blank,
                 aligned, realigned, angle>>

gallery_width(ims) == MaxSeq(Widths(ims))

gallery_height(ims) == SumSeq(Heights(ims))

(* Variant: a single image taken for none. *)
has_images_mut(ims) == Len(ims) > 1

(* if images: *)
has_images(ims) == ims # <<>>

(* The loop over buoy_ids is over.  if images: allocate the canvas;        *)
(* else: print "No images available for gallery." and return.              *)
Compose ==
  /\ pc = "fetch"
  /\ idx > Len(buoy_ids)
  /\ IF has_images(images)
       THEN /\ gallery' = [w |-> gallery_width(images),
                           h |-> gallery_height(images),
                           allocated |-> TRUE, pastes |-> <<>>]
            /\ y_offset' = 0
            /\ pc' = "paste"
       ELSE /\ pc' = "return"
            /\ UNCHANGED <<gallery, y_offset>>
  /\ UNCHANGED <<cycle, idx, image_path, img, images, saved, log, proc,
                 blank, rotEnv, aligned, realigned, angle>>

(* Variant: the offset advanced by the width. *)
next_offset_mut(y, image) == y + image.w

next_offset(y, image) == y + image.h

(* for img in images: gallery.paste(img, (0, y_offset)); y_offset += ...   *)
Paste ==
  /\ pc = "paste"
  /\ Len(gallery.pastes) < Len(images)
  /\ LET image == images[Len(gallery.pastes) + 1]
     IN  /\ gallery' = [gallery EXCEPT !.pastes =
                          Append(@, [x |-> 0, y |-> y_offset,
                                     w |-> image.w, h |-> image.h])]
         /\ y_offset' = next_offset(y_offset, image)
  /\ UNCHANGED <<pc, cycle, idx, image_path, img, images, saved, log, proc,
                 blank, rotEnv, aligned, realigned, angle>>

(* gallery.save(gallery_path) *)
Save ==
  /\ pc = "paste"
  /\ Len(gallery.pastes) = Len(images)
  /\ saved' = saved + 1
  /\ pc' = "return"
  /\ UNCHANGED <<cycle, idx, image_path, img, images, gallery, y_offset,
                 log, proc, blank, rotEnv, aligned, realigned, angle>>

(* create_gallery returns, its locals are gone; time.sleep; next cycle.    *)
Sleep ==
  /\ pc = "return"
  /\ pc' = "main"
  /\ idx' = 1
  /\ image_path' = 0
  /\ img' = NoImage
  /\ images' = <<>>
  /\ gallery' = NoGallery
  /\ y_offset' = 0
  /\ log' = <<>>
  /\ proc' = NoProc
  /\ blank' = FALSE
  /\ UNCHANGED <<cycle, saved, rotEnv, aligned, realigned, angle>>

Next ==
  \/ StartCycle
  \/ Fetch
  \/ Open
  \/ Validate
  \/ Process
  \/ Compose
  \/ Paste
  \/ Save
  \/ Sleep

Spec == Init /\ [][Next]_vars

------------------------------------------------------------------------------
(* is_blank_image applied to every histogram of up to MaxPixels pixels *)

Histograms ==
  {hst \in [1..NumBuckets -> 0..MaxPixels] :
     SumSeq(hst) >= 1 /\ SumSeq(hst) <= MaxPixels}

Defaults ==
  /\ cycle = 0
  /\ idx = 1
  /\ image_path = 0
  /\ images = <<>>
  /\ gallery = NoGallery
  /\ y_offset = 0
  /\ saved = 0
  /\ log = <<>>

InitBlank ==
  /\ pc = "blank_in"
  /\ \E hst \in Histograms :
       img = [w |-> SumSeq(hst), h |-> 1, ref |-> "file", hist |-> hst,
              lines |-> <<>>]
  /\ Defaults
  /\ proc = NoProc
  /\ blank = FALSE
  /\ rotEnv = <<>>
  /\ aligned = NoImage
  /\ realigned = NoImage
  /\ angle = NoAngle

BlankApply ==
  /\ pc = "blank_in"
  /\ blank' = is_blank_image(img)
  /\ pc' = "blank_out"
  /\ UNCHANGED <<cycle, idx, image_path, img, images, gallery, y_offset,
                 saved, log, proc, rotEnv, aligned, realigned, angle>>

NextBlank == BlankApply

SpecBlank == InitBlank /\ [][NextBlank]_vars

------------------------------------------------------------------------------
(* process_and_split_image applied to frames of several heights, each      *)
(* panel showing and rotating to any of PanelViews                         *)

SplitFrames ==
  {FileImage(sz[1], sz[2], "half") :
     sz \in {<<200, 4>>, <<200, 5>>, <<200, 6>>, <<200, 7>>, <<200, 13>>,
             <<200, 600>>, <<200, 605>>, <<100, 1200>>, <<100, 1203>>}}

InitSplit ==
  /\ pc = "split_in"
  /\ img \in SplitFrames
  /\ rotEnv \in Profiles
  /\ too_small(img.h) => rotEnv = [k \in 1..PanelCount |-> Level]
  /\ Defaults
  /\ proc = NoProc
  /\ blank = FALSE
  /\ aligned = NoImage
  /\ realigned = NoImage
  /\ angle = NoAngle

SplitApply ==
  /\ pc = "split_in"
  /\ proc' = process_and_split_image(img, rotEnv)
  /\ pc' = "split_out"
  /\ UNCHANGED <<cycle, idx, image_path, img, images, gallery, y_offset,
                 saved, log, blank, rotEnv, aligned, realigned, angle>>

NextSplit == SplitApply

SpecSplit == InitSplit /\ [][NextSplit]_vars

------------------------------------------------------------------------------
(* align_horizon applied to a panel, and again to its own output *)

Thetas == {0, 89, 90, 91}

LineSets == UNION {[1..n -> Thetas] : n \in 0..MaxLines}

Panels ==
  {[w |-> sz[1], h |-> sz[2], ref |-> "crop", hist |-> <<>>, lines |-> ls] :
     sz \in {<<200, 100>>, <<100, 200>>, <<20, 1>>}, ls \in LineSets}

RotEnvs ==
  {[lines |-> <<>>, grow |-> g, after |-> a] :
     g \in 1..MaxGrow, a \in {<<>>, <<90>>, <<91>>}}

InitAlign ==
  /\ pc = "align_in"
  /\ img \in Panels
  /\ \E e \in RotEnvs : rotEnv = <<e>>
  /\ Defaults
  /\ proc = NoProc
  /\ blank = FALSE
  /\ aligned = NoImage
  /\ realigned = NoImage
  /\ angle = NoAngle

AlignApply ==
  /\ pc = "align_in"
  /\ angle' = rotation_angle(img)
  /\ aligned' = align_horizon(img, rotEnv[1])
  /\ pc' = "align_out"
  /\ UNCHANGED <<cycle, idx, image_path, img, images, gallery, y_offset,
                 saved, log, proc, blank, rotEnv, realigned>>

AlignAgain ==
  /\ pc = "align_out"
  /\ \E e \in RotEnvs : realigned' = align_horizon(aligned, e)
  /\ pc' = "align_twice"
  /\ UNCHANGED <<cycle, idx, image_path, img, images, gallery, y_offset,
                 saved, log, proc, blank, rotEnv, aligned, angle>>

NextAlign == AlignApply \/ AlignAgain

SpecAlign == InitAlign /\ [][NextAlign]_vars

------------------------------------------------------------------------------
(* Properties *)

Last(s) == s[Len(s)]

(* The events of the log that are calls of process_and_split_image. *)
IsProcessed(e) == e.ev \in {"process_error", "appended"}

IsAppended(e) == e.ev = "appended"

IsFetch(e) == e.ev \in NetOutcomes

(* The position of a buoy id in buoy_ids. *)
Position(buoy_id) == CHOOSE i \in 1..Len(buoy_ids) : buoy_ids[i] = buoy_id

LoopOver == pc \in {"paste", "return"} \/ (pc = "fetch" /\ idx > Len(buoy_ids))

(* C1: a frame that is_blank_image classifies as blank is never passed to  *)
(* process_and_split_image and never stands behind an element of images,   *)
(* so no pasted frame of a gallery comes from a blank frame.               *)
C1_BlankNeverProcessed ==
  /\ \A i \in 1..Len(log) :
       IsProcessed(log[i]) => ~is_blank_image(log[i].frame)
  /\ proc # NoProc => ~is_blank_image(proc.inp)
  /\ Len(images) = Len(SelectSeq(log, IsAppended))
  /\ Len(gallery.pastes) <= Len(images)

C1_Witness ==
  /\ pc = "return"
  /\ gallery.allocated
  /\ \E i \in 1..Len(log) : log[i].ev = "blank"

(* C2: whatever goes wrong for one source, create_gallery goes on with the *)
(* remaining sources and composes the gallery: no failure of one source    *)
(* ends the cycle or the process.                                          *)
C2_FailureContained == pc # "crashed"

C4_GalleryGeometry ==
  gallery.allocated =>
    /\ \A i \in 1..Len(images) : images[i].w <= gallery.w
    /\ \E i \in 1..Len(images) : images[i].w = gallery.w
    /\ gallery.h = SumSeq([i \in 1..Len(images) |-> images[i].h])
    /\ \A k \in 1..Len(gallery.pastes) :
         /\ gallery.pastes[k].x = 0
         /\ gallery.pastes[k].h = images[k].h
         /\ gallery.pastes[k].y =
              SumSeq([j \in 1..(k - 1) |-> images[j].h])
         /\ k > 1 => gallery.pastes[k].y =
                       gallery.pastes[k - 1].y + gallery.pastes[k - 1].h
    /\ Len(gallery.pastes) = Len(images) => y_offset = gallery.h

C4_Witness ==
  /\ pc = "return"
  /\ Len(gallery.pastes) >= 2
  /\ gallery.pastes[1].w # gallery.pastes[2].w
  /\ gallery.pastes[2].y > 0

Total == SumSeq(img.hist)

(* C5 as stated: a bucket holding at least 95% of the pixels, exactly 95%  *)
(* included, makes is_blank_image true; a 50/50 split makes it false.      *)
C5_AtLeast95 ==
  pc = "blank_out" =>
    /\ (\E b \in 1..NumBuckets : 20 * img.hist[b] >= 19 * Total) => blank
    /\ (\E b, c \in 1..NumBuckets :
          b # c /\ img.hist[b] = img.hist[c] /\ 2 * img.hist[b] = Total)
         => ~blank

(* C5 amended: a bucket holding strictly more than 95% of the pixels makes *)
(* is_blank_image true; a frame whose fullest bucket holds exactly 95% is  *)
(* not blank, nor is a 50/50 split.                                        *)
C5_MoreThan95 ==
  pc = "blank_out" =>
    /\ (\E b \in 1..NumBuckets : 20 * img.hist[b] > 19 * Total) => blank
    /\ (\E b \in 1..NumBuckets : 20 * img.hist[b] = 19 * Total) => ~blank
    /\ (\E b, c \in 1..NumBuckets :
          b # c /\ img.hist[b] = img.hist[c] /\ 2 * img.hist[b] = Total)
         => ~blank

C5_Witness ==
  /\ pc = "blank_out"
  /\ 20 * img.hist[NumBuckets] = 19 * Total
  /\ ~blank

(* The number of strips of the last call that hold row r. *)
StripsHolding(r) ==
  Cardinality({k \in 1..Len(proc.boxes) :
                 proc.boxes[k].upper <= r /\ r < proc.boxes[k].lower})

Contiguous ==
  /\ Len(proc.boxes) = PanelCount
  /\ proc.boxes[1].upper = 0
  /\ \A k \in 2..PanelCount : proc.boxes[k].upper = proc.boxes[k - 1].lower
  /\ \A k \in 1..PanelCount :
       proc.boxes[k].left = 0 /\ proc.boxes[k].right = img.w

(* C6 as stated: six contiguous strips from row 0, the last one ending at  *)
(* the frame's height H, every row in exactly one strip.                   *)
C6_LastStripEndsAtHeight ==
  (pc = "split_out" /\ img.h >= PanelCount) =>
    /\ Contiguous
    /\ proc.boxes[PanelCount].lower = img.h
    /\ img.h <= 20 => \A r \in 0..(img.h - 1) : StripsHolding(r) = 1

(* C6 amended: six contiguous strips from row 0, each floor(H/6) rows      *)
(* high, the last one ending at row 6 * floor(H/6); every row below that   *)
(* bound is in exactly one strip and the last H mod 6 rows are in none.    *)
C6_StripsOfEqualHeight ==
  (pc = "split_out" /\ img.h >= PanelCount) =>
    /\ Contiguous
    /\ \A k \in 1..PanelCount :
         proc.boxes[k].lower - proc.boxes[k].upper = img.h \div PanelCount
    /\ proc.boxes[PanelCount].lower = img.h - (img.h % PanelCount)
    /\ img.h <= 20 =>
         \A r \in 0..(img.h - 1) :
           StripsHolding(r) =
             IF r < img.h - (img.h % PanelCount) THEN 1 ELSE 0

C6_Witness ==
  /\ pc = "split_out"
  /\ img.h = 13
  /\ proc.boxes[PanelCount].lower = 12
  /\ StripsHolding(12) = 0

RotatedHeight(k) == proc.aligned_panels[k].h

(* C7: the trimmed frame is as wide as the input; when every rotated strip *)
(* is at least panel_height high its height is the sum of the rotated      *)
(* heights less the growth of the first and of the last strip, that is two *)
(* panel heights plus the rotated interior strips; it is never negative;   *)
(* for H divisible by 6 and six level strips it is H.                      *)
C7_TrimmedHeight ==
  (pc = "split_out" /\ img.h >= PanelCount) =>
    LET ph == img.h \div PanelCount
        total == SumSeq([k \in 1..PanelCount |-> RotatedHeight(k)])
    IN  /\ proc.out.w = img.w
        /\ proc.out.h >= 0
        /\ (\A k \in 1..PanelCount : RotatedHeight(k) >= ph) =>
             /\ proc.out.h = total - (RotatedHeight(1) - ph)
                                   - (RotatedHeight(PanelCount) - ph)
             /\ proc.out.h =
                  2 * ph + SumSeq([k \in 1..(PanelCount - 2) |->
                                     RotatedHeight(k + 1)])
        /\ (img.h % PanelCount = 0 /\
            \A k \in 1..PanelCount : proc.aligned_panels[k].ref = "copy")
             => proc.out.h = img.h

C7_Witness ==
  /\ pc = "split_out"
  /\ img.h = 600
  /\ RotatedHeight(1) > 100
  /\ RotatedHeight(3) > 100
  /\ RotatedHeight(PanelCount) > 100
  /\ proc.out.h = 601

(* C8: a frame lower than 6 rows comes back as the very same frame: no     *)
(* strip is cropped, align_horizon is not called, no canvas is built or    *)
(* trimmed; and the frame is appended to images.                           *)
C8_SmallFramePassesThrough ==
  /\ (proc # NoProc /\ proc.inp.h < PanelCount) =>
       /\ proc.out = proc.inp
       /\ proc.boxes = <<>>
       /\ proc.aligned_panels = <<>>
       /\ proc.offsets = <<>>
       /\ proc.combined = NoImage
  /\ (log # <<>> /\ Last(log).ev = "appended"
        /\ Last(log).frame.h < PanelCount) =>
       /\ images # <<>>
       /\ Last(images) = Last(log).frame
       /\ Last(images).ref = "file"

C8_Witness ==
  /\ pc = "return"
  /\ gallery.allocated
  /\ \E i \in 1..Len(images) : images[i].ref = "file" /\ images[i].h = 5

(* C9: a panel in which no line is found is rotated by exactly 0 and comes *)
(* back with the same size and content, and aligning that output again     *)
(* gives the same output; when lines are found the rotation is minus the   *)
(* mean of (theta - 90) over the lines.                                    *)
C9_NoLineNoRotation ==
  pc \in {"align_out", "align_twice"} =>
    LET found == IF img.w > HoughThreshold \/ img.h > HoughThreshold
                   THEN img.lines ELSE <<>>
        n == Len(found)
    IN  /\ found = <<>> =>
             /\ angle.num = 0
             /\ aligned.w = img.w /\ aligned.h = img.h
             /\ aligned.hist = img.hist /\ aligned.lines = img.lines
             /\ pc = "align_twice" => realigned = aligned
        /\ found # <<>> =>
             /\ angle.den = n
             /\ angle.num = 90 * n - SumSeq(found)
             /\ (angle.num = 0) <=> (aligned.ref = "copy")
             /\ angle.num = 90 * n =>
                  (aligned.w = img.h /\ aligned.h = img.w)

C9_Witness ==
  /\ pc = "align_twice"
  /\ img.h = 100
  /\ img.lines = <<>>
  /\ realigned.ref = "copy"

====
